---- MODULE Spec2Model ----
(***************************************************************************)
(* Peirce's Criterion outlier-rejection engine of bottle-plotter           *)
(* (src/plots/ash_plot/ASH/peirce.py): the rejection loop of               *)
(* PeirceCriteria.__init__, PeirceBisect (as the function the loop calls   *)
(* and step by step) and PeirceFunc (its guards and the class of its       *)
(* result); data_split and the validators of src/plots/form_valid.py; and  *)
(* the plot handlers and plot functions of src/plots/*_plot.               *)
(*                                                                         *)
(* Arithmetic.  Samples are sequences of small integers, so every quantity *)
(* the loop compares is an exact rational:                                 *)
(*   xbar     = S / N                      (S the sum of the sample)       *)
(*   delta[i] = |N*x[i] - S| / N           (stored as the numerator)       *)
(*   sigma^2  = (N*Q - S^2) / (N*(N-1))    (Q the sum of squares, ddof=1)  *)
(* A quotient with denominator 0 is numpy's NaN (mean of an empty array,   *)
(* std with ddof=1 of fewer than two values).  A threshold R is carried as *)
(* its square in units of 1/10000, rounded down; delta > sigma*R is        *)
(* decided on the squares, both sides being non-negative.                  *)
(***************************************************************************)
EXTENDS Integers, Sequences, FiniteSets

\* Longest sample, largest sample value, and the range of m: -MaxNegM..MaxM.
MaxLen == 7
MaxVal == 2
MaxM == 5
MaxNegM == 1

Samples == UNION {[1..k -> 0..MaxVal] : k \in 0..MaxLen}

\* Test Case 3 of the module's self-test, [10, 11, 10.5, 11.5, 10.8, 25.0],
\* in tenths (mean, sigma and the residuals all scale with the unit, so
\* delta > sigma*R does not depend on it).
TestCase3 == <<100, 110, 105, 115, 108, 250>>
MValues == (0 - MaxNegM)..MaxM

VARIABLES
  x_data,               \* the sample, np.array(x_input)
  m_unknown,            \* m, the number of unknown quantities
  N_obs,                \* len(x_data)
  xbar,                 \* np.mean(x_data), a quotient [num, den]
  sigma,                \* np.std(x_data, ddof=1), as the quotient sigma^2
  delta,                \* abs(x_data - xbar), numerators over N_obs
  prev_rejected_count,
  n_suspect,
  R_threshold,          \* the last result of PeirceBisect
  x2, RejVec, AcceptVec,
  pc,                   \* "loop" (loop head), "post" (after the loop), "done"
  passes,               \* history: passes through the loop body
  calls,                \* history: calls of PeirceBisect
  term,                 \* history: how the loop ended
  committed,            \* history: the results committed by Improved rounds
  first_term,           \* history: how the run ended whose x2 is this sample
  bisect,               \* the frame of a call of PeirceBisect
  func,                 \* the frame of a call of PeirceFunc
  form,                 \* the frame of a call into form_valid.py
  web                   \* the requests in the plot handlers, and pyplot

loopVars == <<x_data, m_unknown, N_obs, xbar, sigma, delta,
              prev_rejected_count, n_suspect, R_threshold, x2, RejVec,
              AcceptVec, pc, passes, calls, term, committed>>

vars == <<x_data, m_unknown, N_obs, xbar, sigma, delta, prev_rejected_count,
          n_suspect, R_threshold, x2, RejVec, AcceptVec, pc, passes, calls,
          term, committed, first_term, bisect, func, form, web>>

----------------------------------------------------------------------------
(* numpy helpers *)

RECURSIVE SumSeq(_)
SumSeq(s) == IF s = <<>> THEN 0 ELSE Head(s) + SumSeq(Tail(s))

Abs(a) == IF a < 0 THEN 0 - a ELSE a

\* np.mean(x): sum / len; 0/0 is NaN.
Mean(x) == [num |-> SumSeq(x), den |-> Len(x)]

\* np.std(x, ddof=1), squared: sum((x - mean)^2) / (N - 1)
\*   = (N*Q - S^2) / (N*(N-1)); NaN (den = 0) when N <= 1.
Variance(x) ==
  LET N == Len(x)
      S == SumSeq(x)
      Q == SumSeq([i \in 1..N |-> x[i] * x[i]])
  IN  [num |-> N * Q - S * S, den |-> N * (N - 1)]

\* abs(x), each entry times N: the mean is not taken off.
ResidualsFromZero(x) == [i \in 1..Len(x) |-> Abs(Len(x) * x[i])]

\* abs(x - xbar), each entry times N.
Residuals(x) ==
  LET N == Len(x)
      S == SumSeq(x)
  IN  [i \in 1..N |-> Abs(N * x[i] - S)]

\* np.zeros(N, dtype=bool), np.ones(N, dtype=bool)
Zeros(N) == [i \in 1..N |-> FALSE]
Ones(N) == [i \in 1..N |-> TRUE]

\* np.sum of a boolean vector
CountTrue(v) == Cardinality({i \in 1..Len(v) : v[i]})

\* np.logical_not
LogicalNotIdentity(v) == v
LogicalNot(v) == [i \in 1..Len(v) |-> ~v[i]]

\* x[mask]: the entries of x at the true positions of mask, in order.
RECURSIVE BoolIndex(_, _)
BoolIndex(x, mask) ==
  IF x = <<>> THEN <<>>
  ELSE (IF Head(mask) THEN <<Head(x)>> ELSE <<>>)
         \o BoolIndex(Tail(x), Tail(mask))

----------------------------------------------------------------------------
(* PeirceFunc: the guards that return +inf *)

\* R^2 as a quotient.  xl = 0.1; xr = sqrt((N-m)/n) - eps lies just below
\* sqrt((N-m)/n), so xr^2 is (N-m)/n less a small positive amount.
XlSq == [num |-> 1, den |-> 100]
XrSq(N, n, m) == [num |-> (N - m) * 1000 - 1, den |-> n * 1000]

PeirceFuncIsPosInf(N, n, m, Rsq) ==
  \/ n <= 0 \/ (N - n) <= 0 \/ N <= 0
  \/ (N - m) * Rsq.den - n * Rsq.num <= 0      \* lamb_numerator <= 0
  \/ (N - m - n) <= 0                          \* lamb_denominator <= 0

----------------------------------------------------------------------------
(* PeirceFunc, on classes of floating-point values.                        *)
(* A float is "nan", "pinf", "ninf", or finite: "neg", "zero", "pos", or   *)
(* "fin" where the sign is not followed.  "raise" is an exception.         *)

Floats == {"nan", "pinf", "ninf", "neg", "zero", "pos", "fin"}
Finite == {"neg", "zero", "pos", "fin"}

\* The class of an integer.
SignOf(i) == IF i < 0 THEN "neg" ELSE IF i = 0 THEN "zero" ELSE "pos"

\* np.log: log(0) is -inf, the log of a negative number is nan.
NpLog(v) ==
  CASE v = "pos" -> "fin"
    [] v = "zero" -> "ninf"
    [] v = "pinf" -> "pinf"
    [] v = "raise" -> "raise"
    [] OTHER -> "nan"

\* np.sqrt: the root of a negative number is nan.
NpSqrt(v) ==
  CASE v \in {"pos", "zero", "pinf", "raise"} -> v
    [] OTHER -> "nan"

\* i * v for an integer i: 0 * inf is nan.
Times(i, v) ==
  CASE v \in {"nan", "raise"} -> v
    [] v \in {"pinf", "ninf"} ->
         IF i = 0 THEN "nan"
         ELSE IF (i > 0) = (v = "pinf") THEN "pinf" ELSE "ninf"
    [] OTHER -> IF i = 0 THEN "zero" ELSE "fin"

\* -v
Minus(v) ==
  CASE v = "pinf" -> "ninf"
    [] v = "ninf" -> "pinf"
    [] v = "pos" -> "neg"
    [] v = "neg" -> "pos"
    [] OTHER -> v

\* a + b: inf - inf is nan.
Plus(a, b) ==
  CASE a = "raise" \/ b = "raise" -> "raise"
    [] a = "nan" \/ b = "nan" -> "nan"
    [] a \in {"pinf", "ninf"} /\ b \in {"pinf", "ninf"} ->
         IF a = b THEN a ELSE "nan"
    [] a \in {"pinf", "ninf"} -> a
    [] b \in {"pinf", "ninf"} -> b
    [] OTHER -> "fin"

\* a / b for a float a and an integer b, both given by an integer of their
\* sign: dividing a Python float by 0 raises ZeroDivisionError.
Quotient(a, b) ==
  IF b = 0 THEN "raise"
  ELSE IF a = 0 THEN "zero"
  ELSE IF (a > 0) = (b > 0) THEN "pos" ELSE "neg"

\* erfc(R/sqrt 2) <= 1e-300 holds from R^2 = 1373.873 on (R = 37.0658).
ErfcTinyFromSqTenths == 13739
ErfcIsTiny(Rsq) == Rsq.num * 10 >= ErfcTinyFromSqTenths * Rsq.den

\* if n_rej <= 0 or (N_obs - n_rej) <= 0 or N_obs <= 0
DomainGuardNOnly(N, n) == n <= 0
DomainGuard(N, n) == n <= 0 \/ (N - n) <= 0 \/ N <= 0

\* if lamb_numerator <= 0 or lamb_denominator <= 0
LambGuardNumeratorOnly(lamb_numerator, lamb_denominator) == lamb_numerator <= 0
LambGuard(lamb_numerator, lamb_denominator) ==
  lamb_numerator <= 0 \/ lamb_denominator <= 0

\* The class of PeirceFunc(N, n, m, R) for R >= 0 with R^2 = Rsq.
PeirceFunc(N, n, m, Rsq) ==
  IF DomainGuard(N, n) THEN "pinf"
  ELSE
    LET logQN == Plus(Plus(Times(n, NpLog(SignOf(n))),
                           Times(N - n, NpLog(SignOf(N - n)))),
                      Minus(Times(N, NpLog(SignOf(N)))))
        \* lamb_numerator, times Rsq.den > 0
        lamb_numerator == (N - m) * Rsq.den - n * Rsq.num
        lamb_denominator == N - m - n
    IN
      IF LambGuard(lamb_numerator, lamb_denominator) THEN "pinf"
      ELSE
        LET lamb == NpSqrt(Quotient(lamb_numerator, lamb_denominator))
            log_erfc_term == IF ErfcIsTiny(Rsq) THEN "ninf"
                             ELSE Times(n, NpLog("pos"))
        IN
          IF \/ log_erfc_term = "ninf"
             \/ (lamb = "pos" /\ NpLog(lamb) = "ninf")
            THEN "ninf"
          ELSE IF lamb = "zero" /\ (N - n) > 0 THEN "ninf"
          ELSE Plus(Plus(Plus(Times(N - n, NpLog(lamb)),
                              "fin"),        \* 0.5*n_rej*(R*R - 1)
                         log_erfc_term),
                    Minus(logQN))

----------------------------------------------------------------------------
(* PeirceBisect *)

NoRoot == [found |-> FALSE, Rsq |-> 0]

\* The value the bisection returns where the bracket is valid, as
\* floor(R^2 * 10000), for m = -2, -1, 0, ... (the row ends at the last m
\* with N - m - n > 0).  On every (N, n, m) listed f(xl) > 0 > f(xr) and the
\* iteration converges within its budget.
RootSqRow(N, n) ==
  CASE N = 2 /\ n = 1 -> <<15858, 14647, 12874>>
    [] N = 3 /\ n = 1 -> <<25309, 22258, 18797, 14792>>
    [] N = 4 /\ n = 1 -> <<29957, 26614, 23022, 19125, 14836>>
    [] N = 4 /\ n = 2 -> <<14647, 13853, 12874, 11633>>
    [] N = 5 /\ n = 1 -> <<33239, 29931, 26454, 22779, 18863, 14642>>
    [] N = 5 /\ n = 2 -> <<19227, 17785, 16185, 14390, 12354>>
    [] N = 6 /\ n = 1 -> <<35872, 32682, 29369, 25915, 22296, 18478, 14410>>
    [] N = 6 /\ n = 2 -> <<22258, 20586, 18797, 16874, 14792, 12518>>
    [] N = 6 /\ n = 3 -> <<14136, 13551, 12874, 12082, 11141>>
    [] N = 7 /\ n = 1 -> <<38110, 35057, 31910, 28657, 25282, 21766, 18081, 14184>>
    [] N = 7 /\ n = 2 -> <<24622, 22873, 21037, 19101, 17053, 14874, 12536>>
    [] N = 7 /\ n = 3 -> <<17108, 16190, 15189, 14090, 12877, 11524>>
    [] N = 8 /\ n = 1 -> <<40073, 37156, 34164, 31090, 27921, 24647, 21250, 17705, 13975>>
    [] N = 8 /\ n = 2 -> <<26614, 24852, 23022, 21116, 19125, 17037, 14836, 12501>>
    [] N = 8 /\ n = 3 -> <<19328, 18252, 17109, 15890, 14586, 13182, 11661>>
    [] N = 8 /\ n = 4 -> <<13853, 13391, 12874, 12293, 11633, 10877>>

\* A root finder that answers the upper end of its bracket, sqrt((N-m)/n).
BisectionReturnsXr(N, n, m) ==
  [found |-> TRUE, Rsq |-> ((N - m) * 10000) \div n]
Bisection(N, n, m) == [found |-> TRUE, Rsq |-> RootSqRow(N, n)[m + 3]]

\* A root finder that answers the old lower bound R = 1.0 where there is no
\* root, instead of None.
PeirceBisectDefaultsToOne(N, n, m) ==
  IF \/ n <= 0 \/ (N - m) <= 0
     \/ 100 * (N - m) <= n
     \/ PeirceFuncIsPosInf(N, n, m, XlSq)
     \/ PeirceFuncIsPosInf(N, n, m, XrSq(N, n, m))
  THEN [found |-> TRUE, Rsq |-> 10000]
  ELSE Bisection(N, n, m)

PeirceBisect(N, n, m) ==
  IF n <= 0 \/ (N - m) <= 0 THEN NoRoot
  ELSE IF 100 * (N - m) <= n THEN NoRoot      \* (N-m)/n <= xl**2, xl >= xr
  ELSE IF \/ PeirceFuncIsPosInf(N, n, m, XlSq)
          \/ PeirceFuncIsPosInf(N, n, m, XrSq(N, n, m))
       THEN NoRoot                            \* np.isinf(func_xl / func_xr)
  ELSE Bisection(N, n, m)

----------------------------------------------------------------------------
(* The rejection loop of PeirceCriteria.__init__ *)

\* a/b > c/d for a, c >= 0 and b, d > 0, decided on the integer parts and
\* then on the inverted remainders, so that no product leaves 32 bits.
RECURSIVE FracGreater(_, _, _, _)
FracGreater(a, b, c, d) ==
  LET qa == a \div b
      qc == c \div d
      ra == a % b
      rc == c % d
  IN  IF qa # qc THEN qa > qc
      ELSE IF ra = 0 THEN FALSE
      ELSE IF rc = 0 THEN TRUE
      ELSE FracGreater(d, rc, b, ra)

\* delta > sigma*R for one residual d (numerator over N): on the squares,
\*   d^2/N^2 > (sig.num/sig.den) * (Rsq/10000),
\* that is (d^2 * sig.den) / (N^2 * sig.num) > Rsq/10000 where sigma > 0 and
\* d > 0 where sigma = 0.  A NaN sigma compares false.
ExceedsOrEqual(d, N, sig, Rsq) ==
  /\ sig.den # 0
  /\ IF sig.num = 0 THEN TRUE
      ELSE ~FracGreater(Rsq, 10000, d * d * sig.den, N * N * sig.num)
Exceeds(d, N, sig, Rsq) ==
  /\ sig.den # 0
  /\ IF sig.num = 0 THEN d > 0
      ELSE FracGreater(d * d * sig.den, N * N * sig.num, Rsq, 10000)

\* current_RejVec_temp = delta > sigma*R_threshold
RejectionMask(R) ==
  [i \in 1..N_obs |-> Exceeds(delta[i], N_obs, sigma, R.Rsq)]

\* if (N_obs//2 <= n_suspect): break
IsExhaustedStrict(N, n) == N \div 2 < n
IsExhausted(N, n) == N \div 2 <= n

\* if (current_rejected_count > prev_rejected_count)
ImprovedByTwo(cur, prev) == cur > prev + 1
ImprovedOrEqual(cur, prev) == cur >= prev
Improved(cur, prev) == cur > prev

\* if prev_rejected_count == 0   (after the loop)
NoneConfirmedOrOne(prev) == prev <= 1
NoneConfirmed(prev) == prev = 0

Result(rej, acc, filtered) == [RejVec |-> rej, AcceptVec |-> acc, x2 |-> filtered]

\* No call of PeirceBisect, of PeirceFunc or into form_valid.py and no
\* request in progress.
NoCall == [pc |-> "none"]

\* The other frames stay as they are.
IdleRest ==
  /\ first_term = "none"
  /\ bisect = NoCall
  /\ func = NoCall
  /\ form = NoCall
  /\ web = NoCall

\* No PeirceCriteria object under construction.
NoObject ==
  /\ x_data = <<>>
  /\ m_unknown = 0
  /\ N_obs = 0
  /\ xbar = Mean(<<>>)
  /\ sigma = Variance(<<>>)
  /\ delta = <<>>
  /\ prev_rejected_count = 0
  /\ n_suspect = 1
  /\ R_threshold = NoRoot
  /\ x2 = <<>>
  /\ RejVec = <<>>
  /\ AcceptVec = <<>>
  /\ pc = "none"
  /\ passes = 0
  /\ calls = 0
  /\ term = "none"
  /\ committed = <<>>

Init ==
  /\ x_data \in Samples \cup {TestCase3}
  /\ m_unknown \in MValues
  /\ IdleRest
  /\ N_obs = Len(x_data)
  /\ xbar = Mean(x_data)
  /\ sigma = Variance(x_data)
  /\ delta = Residuals(x_data)
  /\ prev_rejected_count = 0
  /\ n_suspect = 1
  /\ R_threshold = NoRoot
  /\ x2 = x_data
  /\ RejVec = Zeros(N_obs)
  /\ AcceptVec = Ones(N_obs)
  /\ pc = "loop"
  /\ passes = 0
  /\ calls = 0
  /\ term = "Running"
  /\ committed = <<>>

\* A loop exit that also puts the result back to all-accepted.
ExhaustedResets ==
  /\ pc = "loop"
  /\ IsExhausted(N_obs, n_suspect)
  /\ pc' = "post"
  /\ term' = "Exhausted"
  /\ passes' = passes + 1
  /\ x2' = x_data
  /\ RejVec' = Zeros(N_obs)
  /\ AcceptVec' = Ones(N_obs)
  /\ UNCHANGED <<x_data, m_unknown, N_obs, xbar, sigma, delta,
                 prev_rejected_count, n_suspect, R_threshold, calls, committed>>

\* Terminal: Exhausted.
Exhausted ==
  /\ pc = "loop"
  /\ IsExhausted(N_obs, n_suspect)
  /\ pc' = "post"
  /\ term' = "Exhausted"
  /\ passes' = passes + 1
  /\ UNCHANGED <<x_data, m_unknown, N_obs, xbar, sigma, delta,
                 prev_rejected_count, n_suspect, R_threshold, x2, RejVec,
                 AcceptVec, calls, committed>>

\* Terminal: Unsolvable (PeirceBisect returns None).
Unsolvable ==
  /\ pc = "loop"
  /\ ~IsExhausted(N_obs, n_suspect)
  /\ LET R == PeirceBisect(N_obs, n_suspect, m_unknown) IN
       /\ ~R.found
       /\ R_threshold' = R
  /\ pc' = "post"
  /\ term' = "Unsolvable"
  /\ passes' = passes + 1
  /\ calls' = calls + 1
  /\ UNCHANGED <<x_data, m_unknown, N_obs, xbar, sigma, delta,
                 prev_rejected_count, n_suspect, x2, RejVec, AcceptVec,
                 committed>>

\* An Improved round that moves n_suspect on by the jump of the count.
ImprovedRoundJumps ==
  /\ pc = "loop"
  /\ ~IsExhausted(N_obs, n_suspect)
  /\ LET R == PeirceBisect(N_obs, n_suspect, m_unknown)
         current_RejVec_temp == RejectionMask(R)
         current_rejected_count == CountTrue(current_RejVec_temp)
     IN
       /\ R.found
       /\ Improved(current_rejected_count, prev_rejected_count)
       /\ R_threshold' = R
       /\ RejVec' = current_RejVec_temp
       /\ AcceptVec' = LogicalNot(RejVec')
       /\ x2' = BoolIndex(x_data, AcceptVec')
       /\ prev_rejected_count' = current_rejected_count
       /\ committed' = Append(committed,
            [count |-> current_rejected_count,
             n |-> n_suspect,
             result |-> Result(RejVec', AcceptVec', x2')])
       /\ n_suspect' = n_suspect + current_rejected_count - prev_rejected_count
  /\ passes' = passes + 1
  /\ calls' = calls + 1
  /\ UNCHANGED <<x_data, m_unknown, N_obs, xbar, sigma, delta, pc, term>>

\* An Improved round that takes sigma again from the filtered sample.
ImprovedRoundRefits ==
  /\ pc = "loop"
  /\ ~IsExhausted(N_obs, n_suspect)
  /\ LET R == PeirceBisect(N_obs, n_suspect, m_unknown)
         current_RejVec_temp == RejectionMask(R)
         current_rejected_count == CountTrue(current_RejVec_temp)
     IN
       /\ R.found
       /\ Improved(current_rejected_count, prev_rejected_count)
       /\ R_threshold' = R
       /\ RejVec' = current_RejVec_temp
       /\ AcceptVec' = LogicalNot(RejVec')
       /\ x2' = BoolIndex(x_data, AcceptVec')
       /\ prev_rejected_count' = current_rejected_count
       /\ committed' = Append(committed,
            [count |-> current_rejected_count,
             n |-> n_suspect,
             result |-> Result(RejVec', AcceptVec', x2')])
       /\ sigma' = Variance(x2')
  /\ n_suspect' = n_suspect + 1
  /\ passes' = passes + 1
  /\ calls' = calls + 1
  /\ UNCHANGED <<x_data, m_unknown, N_obs, xbar, delta, pc, term>>

\* Transition: Improved (the round is committed, the loop goes on).
ImprovedRound ==
  /\ pc = "loop"
  /\ ~IsExhausted(N_obs, n_suspect)
  /\ LET R == PeirceBisect(N_obs, n_suspect, m_unknown)
         current_RejVec_temp == RejectionMask(R)
         current_rejected_count == CountTrue(current_RejVec_temp)
     IN
       /\ R.found
       /\ Improved(current_rejected_count, prev_rejected_count)
       /\ R_threshold' = R
       /\ RejVec' = current_RejVec_temp
       /\ AcceptVec' = LogicalNot(RejVec')
       /\ x2' = BoolIndex(x_data, AcceptVec')
       /\ prev_rejected_count' = current_rejected_count
       /\ committed' = Append(committed,
            [count |-> current_rejected_count,
             n |-> n_suspect,
             result |-> Result(RejVec', AcceptVec', x2')])
  /\ n_suspect' = n_suspect + 1
  /\ passes' = passes + 1
  /\ calls' = calls + 1
  /\ UNCHANGED <<x_data, m_unknown, N_obs, xbar, sigma, delta, pc, term>>

\* A stalled round that does not leave the loop.
StalledContinues ==
  /\ pc = "loop"
  /\ ~IsExhausted(N_obs, n_suspect)
  /\ LET R == PeirceBisect(N_obs, n_suspect, m_unknown)
         current_rejected_count == CountTrue(RejectionMask(R))
     IN
       /\ R.found
       /\ ~Improved(current_rejected_count, prev_rejected_count)
       /\ R_threshold' = R
  /\ passes' = passes + 1
  /\ calls' = calls + 1
  /\ UNCHANGED <<x_data, m_unknown, N_obs, xbar, sigma, delta,
                 prev_rejected_count, n_suspect, x2, RejVec, AcceptVec,
                 committed, pc, term>>

\* Terminal: Stalled.
Stalled ==
  /\ pc = "loop"
  /\ ~IsExhausted(N_obs, n_suspect)
  /\ LET R == PeirceBisect(N_obs, n_suspect, m_unknown)
         current_rejected_count == CountTrue(RejectionMask(R))
     IN
       /\ R.found
       /\ ~Improved(current_rejected_count, prev_rejected_count)
       /\ R_threshold' = R
  /\ pc' = "post"
  /\ term' = "Stalled"
  /\ passes' = passes + 1
  /\ calls' = calls + 1
  /\ UNCHANGED <<x_data, m_unknown, N_obs, xbar, sigma, delta,
                 prev_rejected_count, n_suspect, x2, RejVec, AcceptVec,
                 committed>>

\* A try block that puts the result back to all-accepted whatever the count.
PostLoopAlwaysResets ==
  /\ pc = "post"
  /\ x2' = x_data
  /\ RejVec' = Zeros(N_obs)
  /\ AcceptVec' = Ones(N_obs)
  /\ pc' = "done"
  /\ UNCHANGED <<x_data, m_unknown, N_obs, xbar, sigma, delta,
                 prev_rejected_count, n_suspect, R_threshold, passes, calls,
                 term, committed>>

\* The try block after the loop.  prev_rejected_count is always bound, so
\* the except branch is not taken.
PostLoop ==
  /\ pc = "post"
  /\ IF NoneConfirmed(prev_rejected_count)
       THEN /\ x2' = x_data
            /\ RejVec' = Zeros(N_obs)
            /\ AcceptVec' = Ones(N_obs)
       ELSE UNCHANGED <<x2, RejVec, AcceptVec>>
  /\ pc' = "done"
  /\ UNCHANGED <<x_data, m_unknown, N_obs, xbar, sigma, delta,
                 prev_rejected_count, n_suspect, R_threshold, passes, calls,
                 term, committed>>

Next ==
  \/ Exhausted /\ UNCHANGED <<first_term, bisect, func, form, web>>
  \/ Unsolvable /\ UNCHANGED <<first_term, bisect, func, form, web>>
  \/ ImprovedRound /\ UNCHANGED <<first_term, bisect, func, form, web>>
  \/ Stalled /\ UNCHANGED <<first_term, bisect, func, form, web>>
  \/ PostLoop /\ UNCHANGED <<first_term, bisect, func, form, web>>

Spec == Init /\ [][Next]_vars

\* PeirceCriteria(first.x2, m): the constructor called again on the filtered
\* output of a finished run, with the same m.
Rerun ==
  /\ pc = "done"
  /\ first_term = "none"
  /\ first_term' = term
  /\ x_data' = x2
  /\ N_obs' = Len(x2)
  /\ xbar' = Mean(x2)
  /\ sigma' = Variance(x2)
  /\ delta' = Residuals(x2)
  /\ prev_rejected_count' = 0
  /\ n_suspect' = 1
  /\ R_threshold' = NoRoot
  /\ RejVec' = Zeros(Len(x2))
  /\ AcceptVec' = Ones(Len(x2))
  /\ pc' = "loop"
  /\ passes' = 0
  /\ calls' = 0
  /\ term' = "Running"
  /\ committed' = <<>>
  /\ UNCHANGED <<m_unknown, x2, bisect, func, form, web>>

RerunNext ==
  \/ Exhausted /\ UNCHANGED <<first_term, bisect, func, form, web>>
  \/ Unsolvable /\ UNCHANGED <<first_term, bisect, func, form, web>>
  \/ ImprovedRound /\ UNCHANGED <<first_term, bisect, func, form, web>>
  \/ Stalled /\ UNCHANGED <<first_term, bisect, func, form, web>>
  \/ PostLoop /\ UNCHANGED <<first_term, bisect, func, form, web>>
  \/ Rerun

\* A run, and then a second run on its filtered output.
RerunSpec == Init /\ [][RerunNext]_vars

\* The constructor runs on one thread from its first statement to its last:
\* a step that can be taken is taken.
FairSpec == Spec /\ WF_vars(Next)

----------------------------------------------------------------------------
(* PeirceFunc called on its own *)

\* The arguments: integers -1..MaxFuncInt and one large N, and R >= 0 by
\* its square.
MaxFuncInt == 4
LargeN == 2000
FuncInts == (0 - 1)..MaxFuncInt
RsqValues == {[num |-> 0, den |-> 1], [num |-> 1, den |-> 100],
              [num |-> 1, den |-> 1], [num |-> 5, den |-> 2],
              [num |-> 1375, den |-> 1]}

FuncInit ==
  /\ NoObject
  /\ first_term = "none"
  /\ bisect = NoCall
  /\ form = NoCall
  /\ web = NoCall
  /\ func \in [pc : {"call"}, N : FuncInts \cup {LargeN}, n : FuncInts,
               m : FuncInts, Rsq : RsqValues, ret : {"none"}]

\* PeirceFunc runs from its first line to a return.
FuncReturn ==
  /\ func.pc = "call"
  /\ func' = [func EXCEPT !.pc = "return",
                          !.ret = PeirceFunc(func.N, func.n, func.m, func.Rsq)]
  /\ UNCHANGED <<loopVars, first_term, bisect, form, web>>

FuncNext == FuncReturn

FuncSpec == FuncInit /\ [][FuncNext]_vars

----------------------------------------------------------------------------
(* PeirceBisect, step by step.                                             *)
(* The objective's values are "nan", "pinf", "ninf", or a finite number    *)
(* taken from -1.0, 0.0, 1.0 ("neg", "zero", "pos"): beyond eps on either  *)
(* side, or within it.  Where PeirceFunc is finite at a midpoint its sign   *)
(* is the environment's choice.                                            *)

MaxBisectN == 8
MaxBisectRej == 7
MaxBisectM == 1
max_iters == 100

ObjValues == {"nan", "pinf", "ninf", "neg", "zero", "pos"}

\* self.PeirceFunc(N_obs, n_rej, m_unknown, R) at R^2 = Rsq.
ObjectiveAt(N, n, m, Rsq) ==
  LET c == PeirceFunc(N, n, m, Rsq)
  IN  IF c \in Finite THEN {"neg", "zero", "pos"} ELSE {c}

\* The (N, n, m) with m >= -1 and N <= 12 where PeirceFunc is finite and
\* below 0 at xl = 0.1 (-0.28 for (8, 7, -1)); everywhere else in that range
\* it is +inf or above 0 at xl.  At xr it is +inf or below 0 (about -17,
\* from the logarithm of lamb near 0).
NegativeAtXl ==
  {<<8, 7, 0 - 1>>, <<9, 8, 0 - 1>>, <<9, 8, 0>>, <<10, 9, 0 - 1>>,
   <<10, 9, 0>>, <<11, 10, 0 - 1>>, <<11, 10, 0>>, <<12, 11, 0 - 1>>,
   <<12, 11, 0>>}

\* The objective at the ends of the first bracket, xl = 0.1 and
\* xr = sqrt((N-m)/n) - eps.
EndObjective(b, end) ==
  LET Rsq == IF end = "xl" THEN XlSq ELSE XrSq(b.N, b.n, b.m)
      c == PeirceFunc(b.N, b.n, b.m, Rsq)
  IN  IF b.objective = "any" THEN ObjValues
      ELSE IF c \notin Finite THEN {c}
      ELSE IF end = "xr" THEN {"neg"}
      ELSE IF <<b.N, b.n, b.m>> \in NegativeAtXl THEN {"neg"}
      ELSE {"pos"}

\* The objective at a midpoint xo.  xl < xo < xr, and the guards of
\* PeirceFunc that depend on R (lamb_numerator, the erfc term) only fail
\* from some R on, so xr stands for xo.  An objective that is not PeirceFunc
\* (b.objective = "any") may answer any float.
MidObjective(b) ==
  IF b.objective = "any" THEN ObjValues
  ELSE ObjectiveAt(b.N, b.n, b.m, XrSq(b.N, b.n, b.m))

\* abs(f) > eps; a comparison with nan is false.
AbsGreaterEps(f) == f \in {"pinf", "ninf", "neg", "pos"}

\* np.isinf(f) or np.isnan(f)
IsInfOrNan(f) == f \in {"pinf", "ninf", "nan"}

\* a * b > 0 and a * b < 0 (0 * inf is nan, which compares false)
ProductPositive(a, b) ==
  \/ a \in {"pos", "pinf"} /\ b \in {"pos", "pinf"}
  \/ a \in {"neg", "ninf"} /\ b \in {"neg", "ninf"}
ProductNegativeSwapped(a, b) == ProductPositive(a, b)
ProductNegative(a, b) ==
  \/ a \in {"pos", "pinf"} /\ b \in {"neg", "ninf"}
  \/ a \in {"neg", "ninf"} /\ b \in {"pos", "pinf"}

\* Lines 292-302: the returns before the objective is evaluated.
EarlyReturn(N, n, m) == n <= 0 \/ (N - m) <= 0 \/ 100 * (N - m) <= n

\* Lines 307-309.
BracketInvalidInfOnly(func_xl, func_xr) ==
  IsInfOrNan(func_xl) \/ IsInfOrNan(func_xr)
BracketInvalid(func_xl, func_xr) ==
  \/ IsInfOrNan(func_xl) \/ IsInfOrNan(func_xr)
  \/ ProductPositive(func_xl, func_xr)

\* while(abs(func_xo) > eps and iter_count < max_iters)
LoopConditionOneMore(func_xo, iter_count) ==
  AbsGreaterEps(func_xo) /\ iter_count < max_iters + 1
LoopCondition(func_xo, iter_count) ==
  AbsGreaterEps(func_xo) /\ iter_count < max_iters

\* if iter_count >= max_iters and abs(func_xo) > eps: return None
BudgetNeverExhausted(iter_count, func_xo) == FALSE
BudgetExhausted(iter_count, func_xo) ==
  iter_count >= max_iters /\ AbsGreaterEps(func_xo)

\* The bracket [xl, xr] is kept in units of a quarter of the width of the
\* bracket one step before, counted from that bracket's lower end (the
\* width after k steps, (xr - xl) / 2^k, has no integer form for k up to
\* 100): the first bracket is [0, 4].
FirstBracket == [xl |-> 0, xr |-> 4]

\* xo = (xl+xr)/2.0
Midpoint(b) == (b.xl + b.xr) \div 2

\* The bracket b in the units of the bracket by: a quarter of the width of
\* by, from its lower end.
Rescaled(b, by) ==
  [xl |-> ((b.xl - by.xl) * 4) \div (by.xr - by.xl),
   xr |-> ((b.xr - by.xl) * 4) \div (by.xr - by.xl)]

\* A call PeirceBisect(N, n, m) about to run, the objective being obj.
BisectCalls(obj) ==
  [pc : {"call"}, objective : {obj}, N : 0..MaxBisectN,
   n : 0..MaxBisectRej, m : (0 - 1)..MaxBisectM,
   func_xl : {"none"}, func_xr : {"none"}, func_xo : {"none"},
   first_xl : {"none"},          \* history: the objective at xl = 0.1
   bracket : {FirstBracket},     \* xl and xr
   xo : {Midpoint(FirstBracket)},
   previous : {FirstBracket},    \* history: the bracket one step before
   at_xl : {"none"},             \* history: the objective at the current xl
   at_xr : {"none"},             \* history: the objective at the current xr
   iter_count : {0},
   evals : {0},                  \* history: evaluations of the objective
   ret : {"none"}]

BisectInit ==
  /\ NoObject
  /\ first_term = "none"
  /\ func = NoCall
  /\ form = NoCall
  /\ web = NoCall
  /\ bisect \in BisectCalls("PeirceFunc")

BisectEarlyReturn ==
  /\ bisect.pc = "call"
  /\ EarlyReturn(bisect.N, bisect.n, bisect.m)
  /\ bisect' = [bisect EXCEPT !.pc = "return", !.ret = "None"]
  /\ UNCHANGED <<loopVars, first_term, func, form, web>>

\* Lines 304-311, the bracketing check fails.
BisectNoBracket ==
  /\ bisect.pc = "call"
  /\ ~EarlyReturn(bisect.N, bisect.n, bisect.m)
  /\ \E fl \in EndObjective(bisect, "xl"),
        fr \in EndObjective(bisect, "xr") :
       /\ BracketInvalid(fl, fr)
       /\ bisect' = [bisect EXCEPT !.func_xl = fl, !.first_xl = fl,
                                   !.func_xr = fr, !.evals = 2,
                                   !.pc = "return", !.ret = "None"]
  /\ UNCHANGED <<loopVars, first_term, func, form, web>>

\* Lines 304-317, the bracketing check passes: the first midpoint.
BisectStart ==
  /\ bisect.pc = "call"
  /\ ~EarlyReturn(bisect.N, bisect.n, bisect.m)
  /\ \E fl \in EndObjective(bisect, "xl"),
        fr \in EndObjective(bisect, "xr"),
        fo \in MidObjective(bisect) :
       /\ ~BracketInvalid(fl, fr)
       /\ bisect' = [bisect EXCEPT !.func_xl = fl, !.first_xl = fl,
                                   !.func_xr = fr, !.func_xo = fo,
                                   !.evals = 3, !.iter_count = 0,
                                   !.bracket = FirstBracket,
                                   !.previous = FirstBracket,
                                   !.xo = Midpoint(FirstBracket),
                                   !.at_xl = fl, !.at_xr = fr,
                                   !.pc = "loop"]
  /\ UNCHANGED <<loopVars, first_term, func, form, web>>

\* Lines 318-329: one pass through the loop body.
BisectStep ==
  /\ bisect.pc = "loop"
  /\ LoopCondition(bisect.func_xo, bisect.iter_count)
  /\ ~IsInfOrNan(bisect.func_xo)
  /\ \E fo \in MidObjective(bisect) :
       LET lower == ProductNegative(bisect.func_xl, bisect.func_xo)
           xl == IF lower THEN bisect.bracket.xl ELSE bisect.xo
           xr == IF lower THEN bisect.xo ELSE bisect.bracket.xr
           next == [xl |-> xl, xr |-> xr]
       IN  bisect' = [bisect EXCEPT
                        !.func_xl = IF lower THEN @ ELSE bisect.func_xo,
                        !.at_xl = IF xl = bisect.xo THEN bisect.func_xo ELSE @,
                        !.at_xr = IF xr = bisect.xo THEN bisect.func_xo ELSE @,
                        !.previous = Rescaled(bisect.bracket, bisect.bracket),
                        !.bracket = Rescaled(next, bisect.bracket),
                        !.xo = Midpoint(Rescaled(next, bisect.bracket)),
                        !.func_xo = fo,
                        !.iter_count = @ + 1,
                        !.evals = @ + 1]
  /\ UNCHANGED <<loopVars, first_term, func, form, web>>

\* Lines 318-319: the loop body finds the objective infinite or nan.
BisectAbort ==
  /\ bisect.pc = "loop"
  /\ LoopCondition(bisect.func_xo, bisect.iter_count)
  /\ IsInfOrNan(bisect.func_xo)
  /\ bisect' = [bisect EXCEPT !.pc = "return", !.ret = "None"]
  /\ UNCHANGED <<loopVars, first_term, func, form, web>>

\* Lines 318 and 331-334: the loop condition is false.
BisectExit ==
  /\ bisect.pc = "loop"
  /\ ~LoopCondition(bisect.func_xo, bisect.iter_count)
  /\ bisect' = [bisect EXCEPT
                  !.pc = "return",
                  !.ret = IF BudgetExhausted(bisect.iter_count,
                                             bisect.func_xo)
                            THEN "None" ELSE "xo"]
  /\ UNCHANGED <<loopVars, first_term, func, form, web>>

\* With PeirceFunc as the objective no midpoint is infinite or nan once the
\* bracket is accepted, and the return of line 319 is never taken.
BisectNext ==
  \/ BisectEarlyReturn
  \/ BisectNoBracket
  \/ BisectStart
  \/ BisectStep
  \/ BisectExit

BisectSpec == BisectInit /\ [][BisectNext]_vars

\* PeirceBisect over an arbitrary objective (self.PeirceFunc overridden).
\* N, n and m then only decide the returns before the first evaluation, and
\* N and n are taken up to MaxAnyN.
MaxAnyN == 2

AnyObjectiveInit ==
  /\ NoObject
  /\ first_term = "none"
  /\ func = NoCall
  /\ form = NoCall
  /\ web = NoCall
  /\ bisect \in {b \in BisectCalls("any") : b.N <= MaxAnyN /\ b.n <= MaxAnyN}

AnyObjectiveNext ==
  \/ BisectEarlyReturn
  \/ BisectNoBracket
  \/ BisectStart
  \/ BisectStep
  \/ BisectAbort
  \/ BisectExit

AnyObjectiveSpec == AnyObjectiveInit /\ [][AnyObjectiveNext]_vars

\* PeirceBisect runs on one thread and each evaluation of the objective
\* returns: a step that can be taken is taken.
AnyObjectiveFairSpec == AnyObjectiveSpec /\ WF_vars(AnyObjectiveNext)

\* The constructor's loop, and PeirceBisect step by step.
EngineInit == Init \/ BisectInit

EngineNext ==
  \/ Exhausted /\ UNCHANGED <<first_term, bisect, func, form, web>>
  \/ Unsolvable /\ UNCHANGED <<first_term, bisect, func, form, web>>
  \/ ImprovedRound /\ UNCHANGED <<first_term, bisect, func, form, web>>
  \/ Stalled /\ UNCHANGED <<first_term, bisect, func, form, web>>
  \/ PostLoop /\ UNCHANGED <<first_term, bisect, func, form, web>>
  \/ BisectEarlyReturn
  \/ BisectNoBracket
  \/ BisectStart
  \/ BisectStep
  \/ BisectExit

EngineSpec == EngineInit /\ [][EngineNext]_vars

----------------------------------------------------------------------------
(* form_valid.py: data_split and the validators.                           *)
(* A string is a sequence of characters over a digit, the decimal point, a *)
(* letter, the comma and the blank.                                        *)

MaxStrLen == 5

Chars == {"1", ".", "a", ",", " "}
WhiteSpace == {" "}
Delimiters == WhiteSpace \cup {","}              \* the class [\s,]
Strings == UNION {[1..k -> Chars] : k \in 0..MaxStrLen}

\* Python's None, and a list of strings.
NoneValue == [isNone |-> TRUE, list |-> <<>>]
ListValue(l) == [isNone |-> FALSE, list |-> l]

\* str.strip(): leading and trailing whitespace removed.
RECURSIVE LStrip(_)
LStrip(s) ==
  IF s # <<>> /\ Head(s) \in WhiteSpace THEN LStrip(Tail(s)) ELSE s

RECURSIVE RStrip(_)
RStrip(s) ==
  IF s # <<>> /\ s[Len(s)] \in WhiteSpace
    THEN RStrip(SubSeq(s, 1, Len(s) - 1)) ELSE s

Strip(s) == RStrip(LStrip(s))

\* The rest of s after its leading run of delimiters.
RECURSIVE SkipDelimiters(_)
SkipDelimiters(s) ==
  IF s # <<>> /\ Head(s) \in Delimiters THEN SkipDelimiters(Tail(s)) ELSE s

\* re.split(r'[\s,]+', s), cur being the piece collected so far: a
\* delimiter run at the start or at the end of s leaves an empty piece.
RECURSIVE SplitFrom(_, _)
SplitFrom(s, cur) ==
  IF s = <<>> THEN <<cur>>
  ELSE IF Head(s) \in Delimiters
    THEN <<cur>> \o SplitFrom(SkipDelimiters(s), <<>>)
  ELSE SplitFrom(Tail(s), Append(cur, Head(s)))

ReSplit(s) == SplitFrom(s, <<>>)

\* [item for item in data_list if item]
NonEmpty(item) == item # <<>>
CleanedKeepsAll(data_list) == data_list
Cleaned(data_list) == SelectSeq(data_list, NonEmpty)

\* data_split(data_string); d is the argument, None or a string.
data_split(d) ==
  IF d.isNone THEN NoneValue
  ELSE
    LET processed_string == Strip(d.str)
    IN  IF processed_string = <<>> THEN NoneValue
        ELSE
          LET cleaned_list == Cleaned(ReSplit(processed_string))
          IN  IF cleaned_list = <<>> THEN NoneValue
              ELSE ListValue(cleaned_list)

\* float(token) succeeds: digits with at most one decimal point and at
\* least one digit ("1", "1.", ".1", "1.1"; not ".", "1a", "1.1.").
CanFloat(token) ==
  /\ \A i \in 1..Len(token) : token[i] \in {"1", "."}
  /\ \E i \in 1..Len(token) : token[i] = "1"
  /\ Cardinality({i \in 1..Len(token) : token[i] = "."}) <= 1

\* np.array(data_list, dtype=float) raises ValueError
ArrayRaises(data_list) == \E i \in 1..Len(data_list) : ~CanFloat(data_list[i])

\* DataFloat.__init__: if not message: message = u'Number cannot be ...'
NoMessage == ""
CustomMessage == "All data points must be numbers"
DataFloatMessage(message) ==
  IF message = NoMessage THEN "Number cannot be converted to float."
  ELSE message

\* DataFloat(message)(form, field) with field.data = d: returns, or raises
\* ValidationError(f"{self.message} Details: {err}").
DataFloat(message, d) ==
  LET data_list == data_split(d)
  IN  IF data_list.isNone \/ Len(data_list.list) = 0
        THEN [raised |-> "none", text |-> ""]
      ELSE IF ArrayRaises(data_list.list)
        THEN [raised |-> "ValidationError",
              text |-> DataFloatMessage(message)]   \* + " Details: ..."
      ELSE [raised |-> "none", text |-> ""]

\* The data of the fields the length validators are called on: None, or a
\* string over a digit, the comma and the blank.
MaxFieldLen == 4
MaxLimit == 3
FieldChars == {"1", ",", " "}
FieldStrings == UNION {[1..k -> FieldChars] : k \in 0..MaxFieldLen}
FieldData == [isNone : {TRUE}, str : {<<>>}]
               \cup [isNone : {FALSE}, str : FieldStrings]

\* The values of min and max: -1 (no limit) up to MaxLimit.
Limits == (0 - 1)..MaxLimit

\* No exception; the text of a message is a tuple, the format string first
\* and then its arguments.
NoError == [raised |-> "none", text |-> <<>>]

\* data_list and len(data_list) or 0
LenOrZero(data_list) ==
  IF data_list.isNone \/ data_list.list = <<>> THEN 0
  ELSE IF Len(data_list.list) # 0 THEN Len(data_list.list) ELSE 0

\* DataLength.__init__: if not message: message = u'Data must be between
\* %i and %i values long.' % (min, max)
DataLengthMessage(min, max, message) ==
  IF message = NoMessage
    THEN <<"Data must be between %i and %i values long.", min, max>>
    ELSE <<message>>

\* if l < self.min or (self.max != -1 and l > self.max)
OutOfRangeNoSentinel(l, min, max) == l < min \/ l > max
OutOfRange(l, min, max) == l < min \/ (max # 0 - 1 /\ l > max)

\* DataLength(min, max, message)(form, field) with field.data = d
DataLength(min, max, message, d) ==
  LET data_list == data_split(d)
      l == LenOrZero(data_list)
  IN  IF OutOfRange(l, min, max)
        THEN [raised |-> "ValidationError",
              text |-> DataLengthMessage(min, max, message)]
        ELSE NoError

\* DataLengthEqual.__init__: if not message: message = u'Data must be the
\* same length.'
DataLengthEqualMessage(message) ==
  IF message = NoMessage THEN <<"Data must be the same length.">>
  ELSE <<message>>

\* if len_current != len_other
LengthsDifferWhenLonger(len_current, len_other) == len_current > len_other
LengthsDiffer(len_current, len_other) == len_current # len_other

\* DataLengthEqual(fieldname, message)(form, field) with field.data = d;
\* other.exists says whether the form has an attribute of that name, and
\* other.data is its data.
DataLengthEqual(message, other, d) ==
  IF ~other.exists
    THEN [raised |-> "AttributeError",
          text |-> <<"Invalid field name \"%s\" for DataLengthEqual validator.",
                     "fieldname">>]
  ELSE
    LET data_list_current == data_split(d)
        data_list_other == data_split(other.data)
        len_current == LenOrZero(data_list_current)
        len_other == LenOrZero(data_list_other)
    IN  IF LengthsDiffer(len_current, len_other)
          THEN [raised |-> "ValidationError",
                text |-> DataLengthEqualMessage(message)]
          ELSE NoError

\* The calls: data_split(data_string), and a validator (DataFloat,
\* DataLength, DataLengthEqual) built with or without a message and called
\* on a field.
FormCalls ==
  [pc : {"call"}, fn : {"data_split"}, message : {NoMessage},
   data : [isNone : {TRUE}, str : {<<>>}]
            \cup [isNone : {FALSE}, str : Strings],
   ret : {NoneValue}, error : {[raised |-> "none", text |-> ""]}]
  \cup
  [pc : {"call"}, fn : {"DataFloat"}, message : {NoMessage, CustomMessage},
   data : [isNone : {FALSE}, str : Strings],
   ret : {NoneValue}, error : {[raised |-> "none", text |-> ""]}]
  \cup
  [pc : {"call"}, fn : {"DataLength"}, message : {NoMessage, CustomMessage},
   data : FieldData, min : Limits, max : Limits,
   ret : {NoneValue}, error : {NoError}]
  \cup
  [pc : {"call"}, fn : {"DataLengthEqual"},
   message : {NoMessage, CustomMessage},
   data : FieldData, other : [exists : BOOLEAN, data : FieldData],
   ret : {NoneValue}, error : {NoError}]

FormInit ==
  /\ NoObject
  /\ first_term = "none"
  /\ bisect = NoCall
  /\ func = NoCall
  /\ form \in FormCalls
  /\ web = NoCall

DataSplitReturn ==
  /\ form.pc = "call"
  /\ form.fn = "data_split"
  /\ form' = [form EXCEPT !.pc = "return", !.ret = data_split(form.data)]
  /\ UNCHANGED <<loopVars, first_term, bisect, func, web>>

DataFloatReturn ==
  /\ form.pc = "call"
  /\ form.fn = "DataFloat"
  /\ form' = [form EXCEPT !.pc = "return",
                          !.error = DataFloat(form.message, form.data)]
  /\ UNCHANGED <<loopVars, first_term, bisect, func, web>>

DataLengthReturn ==
  /\ form.pc = "call"
  /\ form.fn = "DataLength"
  /\ form' = [form EXCEPT !.pc = "return",
                          !.error = DataLength(form.min, form.max,
                                               form.message, form.data)]
  /\ UNCHANGED <<loopVars, first_term, bisect, func, web>>

DataLengthEqualReturn ==
  /\ form.pc = "call"
  /\ form.fn = "DataLengthEqual"
  /\ form' = [form EXCEPT !.pc = "return",
                          !.error = DataLengthEqual(form.message, form.other,
                                                    form.data)]
  /\ UNCHANGED <<loopVars, first_term, bisect, func, web>>

FormNext ==
  \/ DataSplitReturn
  \/ DataFloatReturn
  \/ DataLengthReturn
  \/ DataLengthEqualReturn

FormSpec == FormInit /\ [][FormNext]_vars

----------------------------------------------------------------------------
(* The plot handlers: plot (/ash), plot_ce (/ce) and plot_app (/example).   *)
(* The three run the same statements on their own form and plot function.  *)

Handlers == {"plot", "plot_ce", "plot_app"}

\* The plotting function of a handler.
PlotFunction(handler) ==
  CASE handler = "plot" -> "ash_png"
    [] handler = "plot_ce" -> "ce_png"
    [] handler = "plot_app" -> "make_plot"

\* What request.forms.get(name, '') gives: nothing, blanks, or a value.
RawValues == {<<>>, <<" ">>, <<"1">>}

\* Python's truth of a string
Truthy(str) == str # <<>>

\* if clear: ... elif filled and form.validate(): ... else: ...
BranchPlotFirst(clear, filled, validates) ==
  IF Truthy(filled) /\ validates THEN "plot"
  ELSE IF Truthy(clear) THEN "clear"
  ELSE "show"
Branch(clear, filled, validates) ==
  IF Truthy(clear) THEN "clear"
  ELSE IF Truthy(filled) /\ validates THEN "plot"
  ELSE "show"

\* if svg: ... elif png: ... else: ...
ChartType(svg, png) ==
  IF Truthy(svg) THEN "svg" ELSE IF Truthy(png) THEN "pngat" ELSE "png"

\* A request about to be handled; validates is what form.validate() answers
\* on the request's fields.
Requests ==
  [pc : {"request"}, handler : Handlers, clear : RawValues,
   filled : RawValues, svg_download : RawValues, png_download : RawValues,
   validates : BOOLEAN,
   validated : {FALSE},             \* form.validate() was called
   reset : {FALSE},                 \* the fields were put back to defaults
   plotted : {"none"},              \* the plot function called
   chart_type : {"none"},
   body : {"none"},                 \* what is returned: the page or the image
   filled_out : {[isNone |-> TRUE, str |-> <<>>]},   \* template(filled=...)
   img : {"none"}]                  \* template(img=...)

HandlerInit ==
  /\ NoObject
  /\ first_term = "none"
  /\ bisect = NoCall
  /\ func = NoCall
  /\ form = NoCall
  /\ web \in Requests

\* The handler from its first statement to its return.
Handle ==
  /\ web.pc = "request"
  /\ LET filled == Strip(web.filled)
         svg == Strip(web.svg_download)
         png == Strip(web.png_download)
         clear == Strip(web.clear)
         branch == Branch(clear, filled, web.validates)
         chart_type == ChartType(svg, png)
     IN  web' =
           [web EXCEPT
              !.pc = "response",
              !.validated = ~Truthy(clear) /\ Truthy(filled),
              !.reset = (branch = "clear"),
              !.plotted = IF branch = "plot" THEN PlotFunction(web.handler)
                          ELSE "none",
              !.chart_type = IF branch = "plot" THEN chart_type ELSE "none",
              !.body = IF branch = "plot" /\ chart_type \in {"svg", "pngat"}
                         THEN "image" ELSE "page",
              !.filled_out = IF branch = "plot"
                               THEN [isNone |-> FALSE, str |-> filled]
                               ELSE [isNone |-> TRUE, str |-> <<>>],
              !.img = IF branch = "plot" /\ chart_type = "png"
                        THEN "base64" ELSE ""]
  /\ UNCHANGED <<loopVars, first_term, bisect, func, form>>

HandlerNext == Handle

HandlerSpec == HandlerInit /\ [][HandlerNext]_vars

----------------------------------------------------------------------------
(* ash_png, ce_png and make_plot under two requests at once.  pyplot keeps  *)
(* its open figures in the order of activation, the last one being the     *)
(* current figure of plt.subplot, plt.plot, plt.xlabel and plt.ylabel.     *)

Reqs == {1, 2}

\* A figure without axes, lines or labels; its axes, lines and labels are
\* named by the request that put them there.
EmptyFigure == [axes |-> {}, drawn |-> {}, labelled |-> {}]

\* plt.gcf(); a request's own figure is open whenever it asks.
CurrentFigure(open) == open[Len(open)]

\* plt.close(fig): the figure leaves pyplot's list.
WithoutFigure(open, fig) ==
  SelectSeq(open, LAMBDA f : f # fig)

\* Two calls about to run; label says whether the request has axis labels.
PlotCalls ==
  [pc : {"figure"}, fn : {"ash_png", "ce_png", "make_plot"},
   label : BOOLEAN,
   ax : {0},                         \* the figure that holds ax
   image : {EmptyFigure}]            \* what fig.savefig wrote

ConcurrentInit ==
  /\ NoObject
  /\ first_term = "none"
  /\ bisect = NoCall
  /\ func = NoCall
  /\ form = NoCall
  /\ web \in [pc : {"plots"}, req : [Reqs -> PlotCalls], open : {<<>>},
               content : {[f \in Reqs |-> EmptyFigure]}]

\* fig = plt.figure(figsize=...); fig.clf(): the figure of request r is
\* new and becomes the current one.
Figure(r) ==
  /\ web.pc = "plots"
  /\ web.req[r].pc = "figure"
  /\ web' = [web EXCEPT !.req[r].pc = "subplot",
                        !.open = Append(@, r),
                        !.content[r] = EmptyFigure]
  /\ UNCHANGED <<loopVars, first_term, bisect, func, form>>

\* ax = plt.subplot(111): axes on the current figure.
Subplot(r) ==
  /\ web.pc = "plots"
  /\ web.req[r].pc = "subplot"
  /\ LET cur == CurrentFigure(web.open)
     IN  web' = [web EXCEPT !.req[r].pc = "plot",
                           !.req[r].ax = cur,
                           !.content[cur].axes = @ \cup {r}]
  /\ UNCHANGED <<loopVars, first_term, bisect, func, form>>

\* ax.plot(...) and the other calls on ax (ash_png), ce_plot(..., ax=ax)
\* (ce_png): the data goes to the figure that holds ax.  plt.plot(...)
\* (make_plot): the data goes to the axes of the current figure.
Plot(r) ==
  /\ web.pc = "plots"
  /\ web.req[r].pc = "plot"
  /\ LET target == IF web.req[r].fn = "make_plot"
                     THEN CurrentFigure(web.open) ELSE web.req[r].ax
     IN  web' = [web EXCEPT !.req[r].pc = "labels",
                           !.content[target].drawn = @ \cup {r}]
  /\ UNCHANGED <<loopVars, first_term, bisect, func, form>>

\* if x_label: plt.xlabel(x_label) (and plt.ylabel); plt.tight_layout():
\* on the current figure.
Labels(r) ==
  /\ web.pc = "plots"
  /\ web.req[r].pc = "labels"
  /\ LET cur == CurrentFigure(web.open)
     IN  web' = [web EXCEPT !.req[r].pc = "savefig",
                           !.content[cur].labelled =
                              IF web.req[r].label THEN @ \cup {r} ELSE @]
  /\ UNCHANGED <<loopVars, first_term, bisect, func, form>>

\* fig.savefig(outs, ...): the request's own figure is written.
Savefig(r) ==
  /\ web.pc = "plots"
  /\ web.req[r].pc = "savefig"
  /\ web' = [web EXCEPT !.req[r].pc = "close",
                        !.req[r].image = web.content[r]]
  /\ UNCHANGED <<loopVars, first_term, bisect, func, form>>

\* plt.close(fig); return img_bytes
Close(r) ==
  /\ web.pc = "plots"
  /\ web.req[r].pc = "close"
  /\ web' = [web EXCEPT !.req[r].pc = "done",
                        !.open = WithoutFigure(@, r)]
  /\ UNCHANGED <<loopVars, first_term, bisect, func, form>>

ConcurrentNext ==
  \/ \E r \in Reqs : Figure(r)
  \/ \E r \in Reqs : Subplot(r)
  \/ \E r \in Reqs : Plot(r)
  \/ \E r \in Reqs : Labels(r)
  \/ \E r \in Reqs : Savefig(r)
  \/ \E r \in Reqs : Close(r)

ConcurrentSpec == ConcurrentInit /\ [][ConcurrentNext]_vars

----------------------------------------------------------------------------
(* Properties *)

Max(a, b) == IF a >= b THEN a ELSE b

AllAccepted ==
  /\ RejVec = Zeros(N_obs)
  /\ AcceptVec = Ones(N_obs)
  /\ x2 = x_data

Finished == pc \in {"post", "done"}

\* i-th accepted index counted from the left: how many accepted among 1..i.
Rank(i) == Cardinality({j \in 1..i : AcceptVec[j]})

\* The rejected indices of a mask, as a set.
RejectedSet(v) == {i \in 1..Len(v) : v[i]}

\* The last committed result, or the initial all-accepted one.
LastCommitted ==
  IF committed = <<>>
    THEN Result(Zeros(N_obs), Ones(N_obs), x_data)
    ELSE committed[Len(committed)].result

\* C1: in every state of a run, and so in the returned object, AcceptVec and
\* RejVec have the sample's length and exactly one of them is true at each
\* index, and x2 is the subsequence of the sample at the accepted indices in
\* the original order, so len(x2) is the number of accepted points.
C1_MaskConsistency ==
  /\ Len(AcceptVec) = N_obs
  /\ Len(RejVec) = N_obs
  /\ \A i \in 1..N_obs : AcceptVec[i] # RejVec[i]
  /\ Len(x2) = CountTrue(AcceptVec)
  /\ \A i \in 1..N_obs : AcceptVec[i] => x2[Rank(i)] = x_data[i]

\* A finished run with two committed rounds, a rejected point before an
\* accepted one and an accepted point before a rejected one.
C1_Witness ==
  /\ pc = "done"
  /\ Len(committed) = 2
  /\ RejVec[1] /\ AcceptVec[2]
  /\ \E i \in 3..N_obs : RejVec[i] /\ x_data[i] # x_data[1]

\* C2: the rejection counts of the committed rounds are strictly increasing
\* and the first one is above 0; prev_rejected_count is the last of them.
C2_StrictlyIncreasing ==
  /\ \A k \in 1..Len(committed) :
       committed[k].count > (IF k = 1 THEN 0 ELSE committed[k - 1].count)
  /\ prev_rejected_count =
       (IF committed = <<>> THEN 0 ELSE committed[Len(committed)].count)

\* Two committed rounds, the second one after a jump of the count by two.
C2_Witness ==
  /\ Len(committed) = 2
  /\ committed[1].count = 1
  /\ committed[2].count = 3

\* C3: every committed rejection set contains the sets committed before it,
\* and the current (at the end, final) RejVec contains them all.
C3_NeverUnrejects ==
  \A k \in 1..Len(committed) :
     /\ \A j \in 1..k :
          RejectedSet(committed[j].result.RejVec)
            \subseteq RejectedSet(committed[k].result.RejVec)
     /\ RejectedSet(committed[k].result.RejVec) \subseteq RejectedSet(RejVec)

\* A finished run whose second committed round added points to the first.
C3_Witness ==
  /\ pc = "done"
  /\ Len(committed) = 2
  /\ RejectedSet(committed[1].result.RejVec) # {}
  /\ RejectedSet(committed[1].result.RejVec) # RejectedSet(RejVec)

\* C4 as stated: for a sample of N >= 1 values the loop body is passed at
\* most N/2 times.
C4_AtMostHalfNRounds == N_obs >= 1 => 2 * passes <= N_obs

\* C4, amended: every run returns, and the loop body is passed at most
\* max(1, N // 2) times (the pass that finds the loop Exhausted is one of
\* them; a sample of 0 or 1 values takes that one pass).
C4_BoundedRounds ==
  /\ [](passes <= Max(1, N_obs \div 2))
  /\ <>(pc = "done")

\* A run that used the whole budget: N // 2 passes with N // 2 >= 3.
C4_Witness ==
  /\ pc = "done"
  /\ N_obs \div 2 >= 3
  /\ passes = N_obs \div 2

C6_SmallSample ==
  N_obs <= 3 =>
    /\ calls = 0
    /\ AllAccepted
    /\ Finished => (term = "Exhausted" /\ passes = 1)

\* A finished run on three values that are not all equal.
C6_Witness ==
  /\ pc = "done"
  /\ N_obs = 3
  /\ x_data[1] # x_data[3]

\* C7: a sample with fewer than m + 2 values commits no round and stays
\* all-accepted; with 4 values or more the run ends Unsolvable at
\* n_suspect = 1.
C7_FewerThanMPlus2 ==
  N_obs < m_unknown + 2 =>
    /\ committed = <<>>
    /\ AllAccepted
    /\ Finished =>
         IF N_obs <= 3
           THEN term = "Exhausted"
           ELSE term = "Unsolvable" /\ n_suspect = 1 /\ ~R_threshold.found

\* A finished run with N = m + 1 >= 4, where only the guard on
\* lamb_denominator stops the root finder, on a sample with an outlier.
C7_Witness ==
  /\ pc = "done"
  /\ N_obs >= 4
  /\ N_obs = m_unknown + 1
  /\ x_data[1] # x_data[2]

\* C8 as stated: an empty sample or a negative m gives the all-accepted
\* result.
C8_InvalidInputAllAccepted ==
  (pc = "done" /\ (N_obs = 0 \/ m_unknown < 0)) => AllAccepted

\* C9: a sample whose values are all equal ends on its first pass, commits
\* nothing and is all-accepted.
C9_IdenticalValues ==
  (\A i, j \in 1..N_obs : x_data[i] = x_data[j]) =>
    /\ committed = <<>>
    /\ AllAccepted
    /\ passes <= 1
    /\ Finished => passes = 1

\* A finished run on at least 4 equal values for which the root finder
\* returned a threshold.
C9_Witness ==
  /\ pc = "done"
  /\ N_obs >= 4
  /\ \A i, j \in 1..N_obs : x_data[i] = x_data[j]
  /\ R_threshold.found
  /\ term = "Stalled"

\* C10 as stated: no committed result and no final result rejects more
\* than half of the sample.
C10_AtMostHalfRejected ==
  /\ 2 * CountTrue(RejVec) <= N_obs
  /\ \A k \in 1..Len(committed) : 2 * committed[k].count <= N_obs

\* C11 as stated: after a run that ended Stalled or Exhausted, a second run
\* on its x2 with the same m (mean, sigma and N taken from x2) rejects
\* nothing.
C11_RerunRejectsNothing ==
  (first_term \in {"Stalled", "Exhausted"} /\ pc = "done") => AllAccepted

\* C11, amended: the result of a run that ended Stalled or Exhausted is
\* stable against the residuals of the sample it was given: the rejection
\* test with that sample's mean, sigma and N and the last threshold the root
\* finder returned rejects exactly the points of RejVec, no further one.
C11_StableOnOriginalResiduals ==
  (pc = "done" /\ term \in {"Stalled", "Exhausted"} /\ R_threshold.found) =>
    RejectionMask(R_threshold) = RejVec

\* A second run, on the filtered output of a run that ended Stalled after
\* rejecting a point, which rejects a further point and ends Stalled.
C11_Witness ==
  /\ pc = "done"
  /\ first_term = "Stalled"
  /\ term = "Stalled"
  /\ CountTrue(RejVec) >= 1
  /\ R_threshold.found

\* C17: on Test Case 3, [10, 11, 10.5, 11.5, 10.8, 25.0] with m = 1, the
\* finished run rejects the value 25.0 and nothing else: RejVec is true at
\* the last index only and x2 is the other five values in order.
C17_TestCase3 ==
  (pc = "done" /\ first_term = "none" /\ x_data = TestCase3
     /\ m_unknown = 1) =>
    /\ RejVec = <<FALSE, FALSE, FALSE, FALSE, FALSE, TRUE>>
    /\ AcceptVec = <<TRUE, TRUE, TRUE, TRUE, TRUE, FALSE>>
    /\ x2 = <<100, 110, 105, 115, 108>>

\* The finished run on Test Case 3 with m = 1: one committed round, then a
\* stalled one.
C17_Witness ==
  /\ pc = "done"
  /\ first_term = "none"
  /\ x_data = TestCase3
  /\ m_unknown = 1
  /\ Len(committed) = 1
  /\ term = "Stalled"

\* C12: PeirceBisect returns a number only if the objective at it is within
\* eps = 2e-12 of zero; otherwise, and so when the 100 steps are used up
\* without convergence, it returns None.
C12_OnlyConvergedRoot ==
  bisect.pc = "return" =>
    /\ bisect.ret \in {"None", "xo"}
    /\ bisect.ret = "xo" => bisect.func_xo = "zero"
    /\ (bisect.iter_count >= max_iters /\ bisect.func_xo # "zero")
         => bisect.ret = "None"

\* A call that used all 100 steps without converging and returned None.
C12_Witness ==
  /\ bisect.pc = "return"
  /\ bisect.iter_count = max_iters
  /\ bisect.func_xo \in {"neg", "pos"}
  /\ bisect.ret = "None"

C14_NoBracketReturnsNone ==
  /\ (/\ bisect.pc \in {"loop", "return"}
      /\ bisect.evals >= 2
      /\ \/ IsInfOrNan(bisect.first_xl)
         \/ IsInfOrNan(bisect.func_xr)
         \/ ProductPositive(bisect.first_xl, bisect.func_xr))
       => /\ bisect.pc = "return"
          /\ bisect.ret = "None"
          /\ bisect.iter_count = 0
          /\ bisect.evals = 2
  /\ term = "Unsolvable"
       => /\ Finished
          /\ ~R_threshold.found
          /\ Result(RejVec, AcceptVec, x2) = LastCommitted

\* PeirceBisect(8, 7, -1), where the objective is negative at both ends of
\* the bracket (-0.28 and -17.9).
C14_Witness ==
  /\ bisect.pc = "return"
  /\ bisect.N = 8 /\ bisect.n = 7 /\ bisect.m = 0 - 1
  /\ bisect.first_xl = "neg"
  /\ bisect.func_xr = "neg"

\* C15: PeirceFunc(N, n, m, R) returns +infinity, and does not raise,
\* whenever n <= 0, or N - n <= 0, or N <= 0, or N - m - n*R^2 <= 0, or
\* N - m - n <= 0.
C15_PosInfOutsideDomain ==
  (/\ func.pc = "return"
   /\ \/ func.n <= 0
      \/ func.N - func.n <= 0
      \/ func.N <= 0
      \/ (func.N - func.m) * func.Rsq.den - func.n * func.Rsq.num <= 0
      \/ func.N - func.m - func.n <= 0)
    => func.ret = "pinf"

\* A call that passes every guard but the one on lamb_denominator.
C15_Witness ==
  /\ func.pc = "return"
  /\ func.n > 0 /\ func.N - func.n > 0
  /\ (func.N - func.m) * func.Rsq.den - func.n * func.Rsq.num > 0
  /\ func.N - func.m - func.n <= 0
  /\ func.ret = "pinf"

\* C16: PeirceFunc does not raise and does not return NaN: the result is
\* finite, +infinity or -infinity; and it is -infinity whenever
\* erfc(R/sqrt 2) <= 1e-300 and none of the +infinity guards applies.
C16_NeverNaN ==
  func.pc = "return" =>
    /\ func.ret \in Finite \cup {"pinf", "ninf"}
    /\ (/\ ErfcIsTiny(func.Rsq)
        /\ func.n > 0 /\ func.N - func.n > 0 /\ func.N > 0
        /\ (func.N - func.m) * func.Rsq.den - func.n * func.Rsq.num > 0
        /\ func.N - func.m - func.n > 0)
         => func.ret = "ninf"

\* A call inside the domain where erfc underflows, returning -infinity.
C16_Witness ==
  /\ func.pc = "return"
  /\ ErfcIsTiny(func.Rsq)
  /\ func.ret = "ninf"

\* The positions of s where a maximal run of non-delimiters starts, and
\* where one ends.
RunStarts(s) ==
  {i \in 1..Len(s) : /\ s[i] \notin Delimiters
                     /\ (i = 1 \/ s[i - 1] \in Delimiters)}
RunEnds(s) ==
  {i \in 1..Len(s) : /\ s[i] \notin Delimiters
                     /\ (i = Len(s) \/ s[i + 1] \in Delimiters)}

\* The k-th smallest element of a set of positions.
Kth(S, k) == CHOOSE i \in S : Cardinality({j \in S : j <= i}) = k

\* C18 as stated: on a string without a data point (empty, blanks only,
\* commas and blanks only) data_split returns the empty list [].
C18_NoDataPointGivesEmptyList ==
  (/\ form.pc = "return"
   /\ form.fn = "data_split"
   /\ ~form.data.isNone
   /\ RunStarts(form.data.str) = {})
    => form.ret = ListValue(<<>>)

\* C19: on a string with at least one data point data_split returns the
\* maximal runs of characters that are neither comma nor whitespace, in
\* their order, none of them empty, whatever delimiters lead, trail or
\* repeat.
C19_MaximalRuns ==
  (/\ form.pc = "return"
   /\ form.fn = "data_split"
   /\ RunStarts(form.data.str) # {})
    => /\ ~form.ret.isNone
       /\ Len(form.ret.list) = Cardinality(RunStarts(form.data.str))
       /\ \A k \in 1..Len(form.ret.list) :
            /\ form.ret.list[k] # <<>>
            /\ form.ret.list[k] =
                 SubSeq(form.data.str, Kth(RunStarts(form.data.str), k),
                        Kth(RunEnds(form.data.str), k))

\* A call on a string that starts with a comma, has a doubled delimiter
\* inside and ends with a comma, like ",1, a,".
C19_Witness ==
  /\ form.pc = "return"
  /\ form.fn = "data_split"
  /\ Len(form.data.str) = 5
  /\ form.data.str[1] = ","
  /\ form.data.str[3] \in Delimiters /\ form.data.str[4] \in Delimiters
  /\ form.data.str[5] \notin Delimiters
  /\ Len(form.ret.list) = 2

\* C20 as stated: a DataFloat validator built without a message, on a field
\* one of whose tokens is not a float, raises a ValidationError whose
\* message matches 'All data points must be numbers' (the token in the
\* Details part has no blank, so the match is on the message proper).
C20_DefaultMessageAllDataPoints ==
  (/\ form.pc = "return"
   /\ form.fn = "DataFloat"
   /\ form.message = NoMessage
   /\ \E k \in 1..Cardinality(RunStarts(form.data.str)) :
        ~CanFloat(SubSeq(form.data.str, Kth(RunStarts(form.data.str), k),
                         Kth(RunEnds(form.data.str), k))))
    => /\ form.error.raised = "ValidationError"
       /\ form.error.text = "All data points must be numbers"

\* The number of data points of a field's data: the maximal runs of
\* non-delimiter characters, 0 for None.
TokenCount(d) == IF d.isNone THEN 0 ELSE Cardinality(RunStarts(d.str))

\* C21: DataLength(min, max) returns without an exception exactly when the
\* token count l of the field (0 for an empty field) has min <= l and
\* (max = -1 or l <= max); otherwise it raises ValidationError with the
\* message it was built with, or with the default text on min and max.
C21_DataLengthRange ==
  (form.pc = "return" /\ form.fn = "DataLength") =>
    LET l == TokenCount(form.data)
        accepted == form.min <= l /\ (form.max = 0 - 1 \/ l <= form.max)
    IN  /\ accepted <=> form.error.raised = "none"
        /\ ~accepted =>
             /\ form.error.raised = "ValidationError"
             /\ form.error.text =
                  (IF form.message = CustomMessage THEN <<CustomMessage>>
                   ELSE <<"Data must be between %i and %i values long.",
                          form.min, form.max>>)

\* DataLength(min=1, max=-1) has accepted a field of three data points:
\* above every max but the sentinel.
C21_Witness ==
  /\ form.pc = "return"
  /\ form.fn = "DataLength"
  /\ form.min = 1
  /\ form.max = 0 - 1
  /\ form.data = [isNone |-> FALSE, str |-> <<"1", ",", "1", " ">>]
  /\ form.error.raised = "none"

\* C22: DataLengthEqual(fieldname), the form having that field, raises
\* ValidationError with the message it was built with (or the default
\* text) exactly when the token counts of the two fields differ, an empty
\* field counting 0: two empty fields pass, an empty and a non-empty one
\* fail in either direction.
C22_DataLengthEqual ==
  (form.pc = "return" /\ form.fn = "DataLengthEqual" /\ form.other.exists) =>
    LET differ == TokenCount(form.data) # TokenCount(form.other.data)
    IN  /\ differ <=> form.error.raised = "ValidationError"
        /\ ~differ <=> form.error.raised = "none"
        /\ differ =>
             form.error.text =
               (IF form.message = CustomMessage THEN <<CustomMessage>>
                ELSE <<"Data must be the same length.">>)

\* The field is empty (blanks only), the other field holds two data points,
\* and the validator built without a message has raised.
C22_Witness ==
  /\ form.pc = "return"
  /\ form.fn = "DataLengthEqual"
  /\ form.other.exists
  /\ form.message = NoMessage
  /\ form.data = [isNone |-> FALSE, str |-> <<" ", " ">>]
  /\ TokenCount(form.other.data) = 2
  /\ form.error.raised = "ValidationError"

\* C23: an Improved round commits its masks, sets prev_rejected_count to
\* the round's count and moves n_suspect on by exactly 1, whatever the jump
\* of the count; the k-th committed round called the root finder with
\* n_suspect = k and every call is made with the current n_suspect, so the
\* call after a commit uses the old n_suspect + 1; n_suspect is always 1 +
\* the number of committed rounds.
C23_OneStepPerCommit ==
  /\ [](n_suspect = 1 + Len(committed))
  /\ [](\A k \in 1..Len(committed) : committed[k].n = k)
  /\ [][Len(committed') = Len(committed) + 1 =>
          /\ n_suspect' = n_suspect + 1
          /\ prev_rejected_count' = committed'[Len(committed')].count
          /\ prev_rejected_count' = CountTrue(RejVec')
          /\ Result(RejVec', AcceptVec', x2')
               = committed'[Len(committed')].result
          /\ RejVec' = RejectionMask(R_threshold')]_vars
  /\ [][calls' = calls + 1 =>
          R_threshold' = PeirceBisect(N_obs, n_suspect, m_unknown)]_vars

\* At a loop head after one committed round whose count jumped from 0 to
\* 2 or more: n_suspect is 2.
C23_Witness ==
  /\ pc = "loop"
  /\ Len(committed) = 1
  /\ committed[1].count >= 2
  /\ n_suspect = 2

\* C24: N, the mean, sigma and the residuals are those of the input sample
\* in every state, and no step changes them or the sample; the masks a
\* round commits are the test of these residuals against this sigma times
\* the round's own threshold.
C24_StatisticsFixed ==
  /\ [](/\ N_obs = Len(x_data)
        /\ xbar = Mean(x_data)
        /\ sigma = Variance(x_data)
        /\ delta = Residuals(x_data))
  /\ [][UNCHANGED <<x_data, N_obs, xbar, sigma, delta>>]_vars
  /\ [][Len(committed') = Len(committed) + 1 =>
          RejVec' = [i \in 1..Len(x_data) |->
                      Exceeds(Residuals(x_data)[i], Len(x_data),
                              Variance(x_data),
                              PeirceBisect(Len(x_data), n_suspect,
                                           m_unknown).Rsq)]]_vars

\* A finished run with two committed rounds whose filtered sample has
\* another sigma than the input.
C24_Witness ==
  /\ pc = "done"
  /\ Len(committed) = 2
  /\ Len(x2) >= 2
  /\ Variance(x2).num * sigma.den # sigma.num * Variance(x2).den

\* C25: PeirceBisect returns for every (N, n, m) and every objective, after
\* at most 100 bisection steps and at most 103 evaluations of the objective
\* (two bracket ends, the first midpoint, one midpoint per step).
C25_BoundedBisection ==
  /\ [](bisect.iter_count <= 100 /\ bisect.evals <= 103)
  /\ [](bisect.pc = "loop" => bisect.evals = 3 + bisect.iter_count)
  /\ <>(bisect.pc = "return")

\* A call that converged on its 100th step, at the 103rd evaluation.
C25_Witness ==
  /\ bisect.pc = "return"
  /\ bisect.iter_count = 100
  /\ bisect.evals = 103
  /\ bisect.ret = "xo"

\* C26: from the first bracket on, at every bisection step the bracket
\* [xl, xr] lies in the bracket one step before and has half its width,
\* the objective at xl and at xr never has the same strict sign, and the
\* stored func_xl is the objective at the current xl.
C26_BracketInvariant ==
  bisect.pc = "loop" =>
    /\ bisect.previous.xl <= bisect.bracket.xl
    /\ bisect.bracket.xr <= bisect.previous.xr
    /\ bisect.iter_count >= 1 =>
         2 * (bisect.bracket.xr - bisect.bracket.xl)
           = bisect.previous.xr - bisect.previous.xl
    /\ bisect.xo * 2 = bisect.bracket.xl + bisect.bracket.xr
    /\ ~ProductPositive(bisect.at_xl, bisect.at_xr)
    /\ bisect.func_xl = bisect.at_xl

\* After steps to either side: the bracket is the upper half of the one
\* before, whose own xr had come from a midpoint.
C26_Witness ==
  /\ bisect.pc = "loop"
  /\ bisect.iter_count >= 2
  /\ bisect.bracket = [xl |-> 2, xr |-> 4]
  /\ bisect.at_xl = "pos"
  /\ bisect.at_xr = "neg"
  /\ bisect.func_xr = "neg"

\* The residuals of the sample against its mean, times N.
TrueResiduals ==
  LET S == SumSeq(x_data)
  IN  [i \in 1..N_obs |-> Abs(N_obs * x_data[i] - S)]

\* A mask is upward closed in the residuals d and leaves residual 0 alone.
UpwardClosed(v, d) ==
  /\ \A i \in 1..N_obs :
       v[i] => \A j \in 1..N_obs : d[j] >= d[i] => v[j]
  /\ \A i \in 1..N_obs : d[i] = 0 => ~v[i]

\* C28: every committed rejection set, and the current one, is upward
\* closed in the residual |x - mean|: with a rejected point every point of
\* equal or larger residual is rejected, so equal residuals are classified
\* alike; a point of residual 0 is never rejected.
C28_UpwardClosed ==
  LET d == TrueResiduals
  IN  /\ UpwardClosed(RejVec, d)
      /\ \A k \in 1..Len(committed) :
           UpwardClosed(committed[k].result.RejVec, d)

\* A committed set that holds two points of equal residual on the two sides
\* of the mean, next to an accepted point on the mean.
C28_Witness ==
  /\ committed # <<>>
  /\ \E i, j \in 1..N_obs :
       /\ RejVec[i] /\ RejVec[j]
       /\ x_data[i] < x_data[j]
       /\ TrueResiduals[i] = TrueResiduals[j]
  /\ \E i \in 1..N_obs : AcceptVec[i] /\ TrueResiduals[i] = 0

\* C30: prev_rejected_count is bound in every state and equals the number
\* of true entries of RejVec, at every loop head and at the loop's exit; so
\* the step after the loop never changes RejVec, AcceptVec or x2.
C30_CountMatchesMask ==
  /\ [](prev_rejected_count \in Nat)
  /\ [](prev_rejected_count = CountTrue(RejVec))
  /\ [][pc = "post" => UNCHANGED <<RejVec, AcceptVec, x2>>]_vars

\* A finished run that committed a round: the step after the loop was taken
\* with a count above 0.
C30_Witness ==
  /\ pc = "done"
  /\ prev_rejected_count >= 1
  /\ term = "Unsolvable"

\* C27: a handler calls its plot function only when clear is empty, filled
\* is not and form.validate() succeeds; with a non-empty clear the fields
\* are reset and nothing is validated or plotted, whatever the download
\* buttons; without a plot the page is rendered with img = '' and
\* filled = None.
C27_PlotOnlyWhenValid ==
  web.pc = "response" =>
    /\ web.plotted # "none" =>
         /\ Strip(web.clear) = <<>>
         /\ Strip(web.filled) # <<>>
         /\ web.validates /\ web.validated
         /\ web.plotted = PlotFunction(web.handler)
    /\ Strip(web.clear) # <<>> =>
         /\ web.reset
         /\ ~web.validated
         /\ web.plotted = "none"
    /\ web.plotted = "none" =>
         /\ web.body = "page"
         /\ web.img = ""
         /\ web.filled_out.isNone

\* A request with clear, a filled form that validates and the SVG button:
\* the page has come back, nothing was plotted.
C27_Witness ==
  /\ web.pc = "response"
  /\ web.clear = <<"1">>
  /\ web.filled = <<"1">>
  /\ web.svg_download = <<"1">>
  /\ web.validates
  /\ web.body = "page"
  /\ web.reset

\* C29 as stated: with the steps of two plot calls interleaved, the image
\* a request saves holds the lines and labels of that request only, and the
\* request's axes are on the figure it saves.
C29_OwnDataOnly ==
  web.pc = "plots" =>
    \A r \in Reqs :
       web.req[r].pc \in {"close", "done"} =>
         /\ web.req[r].ax = r
         /\ web.req[r].image.drawn = {r}
         /\ web.req[r].image.labelled =
              (IF web.req[r].label THEN {r} ELSE {})

====
